---- MODULE Spec2Model ----
(***************************************************************************)
(* A model of teroshdl_gen.py: the unit index, the per-file reference      *)
(* resolution, the file-order resolver (explicit-stack depth-first sort)   *)
(* and the library-order resolver (Kahn's pass).                           *)
(*                                                                         *)
(* Python strings are sequences of one-character strings, so that prefix   *)
(* tests, case folding and path arithmetic are computed and not assumed.   *)
(* The model is of a POSIX build: the separator is "/" and                 *)
(* os.path.normcase returns its argument.                                  *)
(***************************************************************************)
EXTENDS Integers, Sequences, FiniteSets, TLC

VARIABLES
    disk,             \* the files on disk, in the order os.walk meets them
    top_level_file,   \* args.toplevel_file, as given on the command line
    lib_map_args,     \* args.lib_map: the raw 'lib:path' strings
    default_lib,      \* args.library
    search_path,      \* args.search_path: the search roots, as given
    pc,               \* main's position
    unit_map,         \* the unit index: entries (key, paths) in insertion order
    file_to_lib_map,  \* normalized absolute path -> library
    INCLUDE_FILES,    \* the process-wide include-file set
    path_cache,       \* resolve_dependency_tree: normalized path -> path
    stack,            \* resolve_dependency_tree: frames (path, cursor)
    visited,          \* resolve_dependency_tree: the visited set
    ordered_files,    \* resolve_dependency_tree: the output list
    diag,             \* the diagnostics printed so far
    trace_exp,        \* per expanded file: the stack and edges at its expansion
    prev_ordered,     \* the output list of the previous run on this input
    run,              \* which run of the program on this input this is
    sources_by_lib,   \* generate_python_dict: library -> files, insertion order
    lib_graph,        \* generate_python_dict: library -> libraries it needs
    todo_files,       \* generate_python_dict: source files still to scan
    graph_copy,       \* generate_python_dict: Kahn's working copy
    queue,            \* generate_python_dict: Kahn's queue
    sorted_order,     \* generate_python_dict: Kahn's output
    final_dict,       \* generate_python_dict: the dictionary printed
    file_entries      \* generate_yaml_file: the records written

vars == << disk, top_level_file, lib_map_args, default_lib, search_path, pc, unit_map,
           file_to_lib_map, INCLUDE_FILES, path_cache, stack, visited,
           ordered_files, diag, trace_exp, prev_ordered, run, sources_by_lib,
           lib_graph, todo_files, graph_copy, queue, sorted_order, final_dict,
           file_entries >>

(***************************************************************************)
(* Bounds of the model.                                                    *)
(***************************************************************************)
MaxRules == 2    \* --lib-map arguments per run
MaxRefs == 2     \* references per file in the file-order fixtures
MaxRuns == 2     \* runs of the program compared on one input
MaxRoots == 2    \* --search-path arguments per run

(***************************************************************************)
(* Python str and os.path (posixpath).                                     *)
(***************************************************************************)
None == <<>>            \* an optional string is None or Some(s)
Some(s) == <<s>>

StartsWith(s, p) == Len(p) <= Len(s) /\ SubSeq(s, 1, Len(p)) = p

EndsWith(s, p) == Len(p) <= Len(s) /\ SubSeq(s, Len(s) - Len(p) + 1, Len(s)) = p

LowerChar(c) ==
    CASE c = "A" -> "a" [] c = "B" -> "b" [] c = "C" -> "c" [] c = "D" -> "d"
      [] c = "E" -> "e" [] c = "I" -> "i" [] c = "K" -> "k" [] c = "L" -> "l"
      [] c = "O" -> "o" [] c = "P" -> "p" [] c = "Q" -> "q" [] c = "R" -> "r"
      [] c = "U" -> "u" [] c = "V" -> "v" [] c = "W" -> "w" [] c = "X" -> "x"
      [] OTHER -> c

Lower(s) == [i \in 1..Len(s) |-> LowerChar(s[i])]

RECURSIVE SplitFrom(_, _, _, _)
SplitFrom(s, sep, i, cur) ==
    IF i > Len(s) THEN <<cur>>
    ELSE IF s[i] = sep THEN <<cur>> \o SplitFrom(s, sep, i + 1, <<>>)
    ELSE SplitFrom(s, sep, i + 1, Append(cur, s[i]))

Split(s, sep) == SplitFrom(s, sep, 1, <<>>)

RECURSIVE Join(_, _)
Join(comps, sep) ==
    IF comps = <<>> THEN <<>>
    ELSE IF Len(comps) = 1 THEN comps[1]
    ELSE comps[1] \o <<sep>> \o Join(Tail(comps), sep)

\* s.find(c): the first index of c (1-based), 0 when absent
RECURSIVE FindFrom(_, _, _)
FindFrom(s, c, i) ==
    IF i > Len(s) THEN 0 ELSE IF s[i] = c THEN i ELSE FindFrom(s, c, i + 1)

\* s.rfind(c): the last index of c (1-based), 0 when absent
RECURSIVE RFindFrom(_, _, _)
RFindFrom(s, c, i) ==
    IF i < 1 THEN 0 ELSE IF s[i] = c THEN i ELSE RFindFrom(s, c, i - 1)

RECURSIVE RStrip(_, _)
RStrip(s, c) ==
    IF s # <<>> /\ s[Len(s)] = c THEN RStrip(SubSeq(s, 1, Len(s) - 1), c) ELSE s

SelectComps(comps) == SelectSeq(comps, LAMBDA c : c # <<>> /\ c # <<".">>)

RECURSIVE NormComps(_, _, _)
NormComps(comps, new_comps, initial_slashes) ==
    IF comps = <<>> THEN new_comps
    ELSE LET comp == Head(comps)
             n == Len(new_comps)
         IN  IF comp = <<>> \/ comp = <<".">>
               THEN NormComps(Tail(comps), new_comps, initial_slashes)
             ELSE IF \/ comp # <<".", ".">>
                     \/ (initial_slashes = 0 /\ n = 0)
                     \/ (n > 0 /\ new_comps[n] = <<".", ".">>)
               THEN NormComps(Tail(comps), Append(new_comps, comp), initial_slashes)
             ELSE IF n > 0
               THEN NormComps(Tail(comps), SubSeq(new_comps, 1, n - 1), initial_slashes)
             ELSE NormComps(Tail(comps), new_comps, initial_slashes)

normpath(path) ==
    IF path = <<>> THEN <<".">>
    ELSE LET initial_slashes ==
                 IF ~StartsWith(path, <<"/">>) THEN 0
                 ELSE IF StartsWith(path, <<"/", "/">>)
                         /\ ~StartsWith(path, <<"/", "/", "/">>) THEN 2
                 ELSE 1
             body == Join(NormComps(Split(path, "/"), <<>>, initial_slashes), "/")
             res == [i \in 1..initial_slashes |-> "/"] \o body
         IN  IF res = <<>> THEN <<".">> ELSE res

\* POSIX: os.path.normcase returns the path unchanged
normcase(path) == path

CWD == <<"/", "w">>     \* os.getcwd()

isabs(path) == StartsWith(path, <<"/">>)

\* posixpath.join(a, b)
pathjoin(a, b) ==
    IF isabs(b) THEN b
    ELSE IF a = <<>> \/ EndsWith(a, <<"/">>) THEN a \o b
    ELSE a \o <<"/">> \o b

abspath(path) == normpath(IF isabs(path) THEN path ELSE pathjoin(CWD, path))

dirname(p) ==
    LET i == RFindFrom(p, "/", Len(p))
        head == SubSeq(p, 1, i)
    IN  IF head # <<>> /\ head # [k \in 1..Len(head) |-> "/"]
          THEN RStrip(head, "/") ELSE head

basename(p) == SubSeq(p, RFindFrom(p, "/", Len(p)) + 1, Len(p))

RECURSIVE CommonPrefixLen(_, _)
CommonPrefixLen(s1, s2) ==
    IF s1 = <<>> \/ s2 = <<>> \/ Head(s1) # Head(s2) THEN 0
    ELSE 1 + CommonPrefixLen(Tail(s1), Tail(s2))

\* os.path.commonpath([p, q]) for two absolute paths
commonpath(p, q) ==
    LET s1 == SelectComps(Split(p, "/"))
        s2 == SelectComps(Split(q, "/"))
        common == SubSeq(s1, 1, CommonPrefixLen(s1, s2))
    IN  <<"/">> \o Join(common, "/")

\* os.path.relpath(path), relative to the working directory
relpath(path) ==
    LET start_list == SelectSeq(Split(abspath(CWD), "/"), LAMBDA c : c # <<>>)
        path_list == SelectSeq(Split(abspath(path), "/"), LAMBDA c : c # <<>>)
        i == CommonPrefixLen(start_list, path_list)
        rel_list == [k \in 1..(Len(start_list) - i) |-> <<".", ".">>]
                        \o SubSeq(path_list, i + 1, Len(path_list))
    IN  IF rel_list = <<>> THEN <<".">> ELSE Join(rel_list, "/")

(***************************************************************************)
(* Python dict: a sequence of entries [key, val] in insertion order.       *)
(***************************************************************************)
Range(s) == {s[i] : i \in 1..Len(s)}

Keys(d) == {d[i].key : i \in 1..Len(d)}

KeyList(d) == [i \in 1..Len(d) |-> d[i].key]

Lookup(d, k) == (CHOOSE i \in 1..Len(d) : d[i].key = k)

Get(d, k) == d[Lookup(d, k)].val

GetOr(d, k, dflt) == IF k \in Keys(d) THEN Get(d, k) ELSE dflt

\* d[k] = v: a new key goes last, an existing key keeps its place
Put(d, k, v) ==
    IF k \in Keys(d)
      THEN [i \in 1..Len(d) |-> IF d[i].key = k THEN [key |-> k, val |-> v] ELSE d[i]]
      ELSE Append(d, [key |-> k, val |-> v])

\* defaultdict(list): d[k].append(v)
AppendTo(d, k, v) == Put(d, k, Append(GetOr(d, k, <<>>), v))

(***************************************************************************)
(* parse_lib_map and get_library_for_path.                                 *)
(***************************************************************************)
RECURSIVE parse_lib_map_from(_, _)
parse_lib_map_from(args, lib_to_paths_map) ==
    IF args = <<>> THEN lib_to_paths_map
    ELSE LET arg == Head(args)
             c == FindFrom(arg, ":", 1)
         IN  IF c = 0
               THEN parse_lib_map_from(Tail(args), lib_to_paths_map)
               ELSE LET lib_name == SubSeq(arg, 1, c - 1)
                        path == SubSeq(arg, c + 1, Len(arg))
                        norm_path == normcase(normpath(path))
                    IN  parse_lib_map_from(Tail(args),
                            AppendTo(lib_to_paths_map, lib_name, norm_path))

parse_lib_map(args) == parse_lib_map_from(args, <<>>)

\* all_paths: the (path, lib_name) pairs in dict order
RECURSIVE all_paths(_)
all_paths(lib_map) ==
    IF lib_map = <<>> THEN <<>>
    ELSE [i \in 1..Len(Head(lib_map).val) |->
              [path |-> Head(lib_map).val[i], lib |-> Head(lib_map).key]]
         \o all_paths(Tail(lib_map))

\* sorted(seq, key=len(path), reverse=True): stable, longest first
RECURSIVE InsertByLenDesc(_, _)
InsertByLenDesc(sorted, item) ==
    IF sorted = <<>> THEN <<item>>
    ELSE IF Len(Head(sorted).path) >= Len(item.path)
      THEN <<Head(sorted)>> \o InsertByLenDesc(Tail(sorted), item)
      ELSE <<item>> \o sorted

RECURSIVE SortByLenDescFrom(_, _)
SortByLenDescFrom(items, acc) ==
    IF items = <<>> THEN acc
    ELSE SortByLenDescFrom(Tail(items), InsertByLenDesc(acc, Head(items)))

\* mutant: shortest prefix first
RECURSIVE InsertByLenAsc(_, _)
InsertByLenAsc(sorted, item) ==
    IF sorted = <<>> THEN <<item>>
    ELSE IF Len(Head(sorted).path) <= Len(item.path)
      THEN <<Head(sorted)>> \o InsertByLenAsc(Tail(sorted), item)
      ELSE <<item>> \o sorted

RECURSIVE SortByLenAscFrom(_, _)
SortByLenAscFrom(items, acc) ==
    IF items = <<>> THEN acc
    ELSE SortByLenAscFrom(Tail(items), InsertByLenAsc(acc, Head(items)))

sorted_paths_shortest_first(lib_map) == SortByLenAscFrom(all_paths(lib_map), <<>>)

sorted_paths(lib_map) == SortByLenDescFrom(all_paths(lib_map), <<>>)

RECURSIVE FirstMatch(_, _, _)
FirstMatch(norm_file_path, paths, dflt) ==
    IF paths = <<>> THEN dflt
    ELSE IF StartsWith(norm_file_path, Head(paths).path) THEN Head(paths).lib
    ELSE FirstMatch(norm_file_path, Tail(paths), dflt)

get_library_for_path(rel_file_path, lib_map, dflt) ==
    FirstMatch(normcase(rel_file_path), sorted_paths(lib_map), dflt)

(***************************************************************************)
(* The files on disk.  A file's text is kept as what the regular           *)
(* expressions of lines 14-20 find in it, in the order finditer yields:    *)
(*   entities, packages  VHDL_ENTITY_DEF_REGEX, VHDL_PACKAGE_DEF_REGEX     *)
(*   modules             VERILOG_MODULE_DEF_REGEX                          *)
(*   uses, insts         VHDL_USE_REGEX, VHDL_INST_REGEX: <<hint, name>>   *)
(*   includes, vinsts    VERILOG_INCLUDE_REGEX, VERILOG_INST_REGEX         *)
(***************************************************************************)
EmptyFile(path) ==
    [path |-> path, readable |-> TRUE, entities |-> <<>>, packages |-> <<>>,
     modules |-> <<>>, uses |-> <<>>, insts |-> <<>>, includes |-> <<>>,
     vinsts |-> <<>>]

DiskPaths == {disk[i].path : i \in 1..Len(disk)}

FileAt(path) == disk[CHOOSE i \in 1..Len(disk) : disk[i].path = path]

isfile(path) == abspath(path) \in DiskPaths

\* os.path.exists: a file, or a directory above one
exists(path) ==
    LET p == abspath(path)
    IN  \/ p \in DiskPaths
        \/ \E q \in DiskPaths : StartsWith(q, IF p = <<"/">> THEN p ELSE p \o <<"/">>)

\* os.path.isdir: a directory is on disk when a file lies beneath it
isdir(path) ==
    LET p == abspath(path)
    IN  \E q \in DiskPaths : StartsWith(q, IF p = <<"/">> THEN p ELSE p \o <<"/">>)

\* os.walk(abs_search_path): the files beneath the root, in the order met
os_walk(abs_search_path) ==
    SelectSeq(disk, LAMBDA f : StartsWith(f.path,
                  IF abs_search_path = <<"/">> THEN abs_search_path
                  ELSE abs_search_path \o <<"/">>))

\* lines 78-82: the files met, search root after search root
RECURSIVE walk_all(_)
walk_all(search_paths) ==
    IF search_paths = <<>> THEN <<>>
    ELSE os_walk(abspath(Head(search_paths))) \o walk_all(Tail(search_paths))

\* args.search_path when -s is not given
DefaultSearchPath == << <<".">> >>

\* open(path).read() succeeds
CanRead(path) == isfile(path) /\ FileAt(abspath(path)).readable

ExtVhd == <<".", "v", "h", "d">>
ExtVhdl == <<".", "v", "h", "d", "l">>
ExtV == <<".", "v">>
ExtSv == <<".", "s", "v">>

IsVhdlName(name) == EndsWith(Lower(name), ExtVhd) \/ EndsWith(Lower(name), ExtVhdl)

IsVerilogName(name) == EndsWith(Lower(name), ExtV) \/ EndsWith(Lower(name), ExtSv)

hdl_extensions(name) == IsVhdlName(name) \/ IsVerilogName(name)

(***************************************************************************)
(* build_design_unit_map: one pass over the walk.                          *)
(***************************************************************************)
RECURSIVE AppendUnits(_, _, _, _)
AppendUnits(umap, library, names, path) ==
    IF names = <<>> THEN umap
    ELSE AppendUnits(AppendTo(umap, <<Lower(library), Lower(Head(names))>>, path),
                     library, Tail(names), path)

RECURSIVE build_from(_, _, _, _)
build_from(files, lib_map, dflt, acc) ==
    IF files = <<>> THEN acc
    ELSE LET f == Head(files)
             abs_file_path == abspath(f.path)
             rel_file_path == relpath(abs_file_path)
             library == get_library_for_path(rel_file_path, lib_map, dflt)
             f2l == Put(acc.file_to_lib_map, normcase(abs_file_path), library)
             original_file_path == normpath(f.path)
             u1 == AppendUnits(acc.unit_map, library, f.entities \o f.packages,
                               original_file_path)
             u2 == AppendUnits(u1, dflt, f.modules, original_file_path)
         IN  IF ~hdl_extensions(basename(f.path))
               THEN build_from(Tail(files), lib_map, dflt, acc)
             ELSE IF ~f.readable
               THEN build_from(Tail(files), lib_map, dflt,
                               [acc EXCEPT !.file_to_lib_map = f2l])
             ELSE build_from(Tail(files), lib_map, dflt,
                             [unit_map |-> u2, file_to_lib_map |-> f2l])

build_design_unit_map(files, lib_map, dflt) ==
    build_from(files, lib_map, dflt, [unit_map |-> <<>>, file_to_lib_map |-> <<>>])

(***************************************************************************)
(* find_dependencies_in_file.  The result is the dependency set, the       *)
(* diagnostics printed, the paths added to INCLUDE_FILES, and whether the  *)
(* call raised (an uncaught AttributeError ends the process).              *)
(***************************************************************************)
W_work == <<"w", "o", "r", "k">>

\* line 21; no line of the program reads it
VERILOG_KEYWORDS ==
    { <<"i", "n", "p", "u", "t">>, <<"o", "u", "t", "p", "u", "t">>,
      <<"i", "n", "o", "u", "t">>, <<"r", "e", "g">>, <<"w", "i", "r", "e">>,
      <<"l", "o", "g", "i", "c">>, <<"i", "n", "t", "e", "g", "e", "r">>,
      <<"g", "e", "n", "v", "a", "r">>, <<"p", "a", "r", "a", "m", "e", "t", "e", "r">>,
      <<"l", "o", "c", "a", "l", "p", "a", "r", "a", "m">> }

W_ieee == <<"i", "e", "e", "e">>

Diag(kind, file, dep) == [kind |-> kind, file |-> file, dep |-> dep]

\* lines 123-133, for the file whose directory is current_file_dir
RECURSIVE BestFrom(_, _, _, _)
BestFrom(current_file_dir, path_list, best_path, max_common_len) ==
    IF path_list = <<>> THEN best_path
    ELSE LET candidate_path == Head(path_list)
             common_len == Len(commonpath(current_file_dir, abspath(candidate_path)))
         IN  IF common_len > max_common_len
               THEN BestFrom(current_file_dir, Tail(path_list), candidate_path, common_len)
               ELSE BestFrom(current_file_dir, Tail(path_list), best_path, max_common_len)

\* mutant: the last of the candidates wins whatever its common prefix
best_path_last_candidate(current_file_dir, path_list) == path_list[Len(path_list)]

get_best_path_by_proximity(current_file_dir, path_list) ==
    IF Len(path_list) = 1 THEN path_list[1]
    ELSE BestFrom(current_file_dir, path_list, None, -1)

\* lines 160-162: every bucket whose unit name matches, in dict order
RECURSIVE GatherAll(_, _)
GatherAll(umap, unit_name) ==
    IF umap = <<>> THEN <<>>
    ELSE (IF Head(umap).key[2] = unit_name THEN Head(umap).val ELSE <<>>)
         \o GatherAll(Tail(umap), unit_name)

\* mutant: an explicit hint that finds nothing falls back to every library
gather_with_fallback(umap, lib_name, unit_name) ==
    IF lib_name # None /\ lib_name[1] # <<>> /\ Lower(lib_name[1]) # W_work
         /\ <<Lower(lib_name[1]), unit_name>> \in Keys(umap)
      THEN Get(umap, <<Lower(lib_name[1]), unit_name>>)
      ELSE GatherAll(umap, unit_name)

\* lines 146-162: phase 1
gather_candidates(umap, lib_name, unit_name) ==
    IF lib_name # None /\ lib_name[1] # <<>> /\ Lower(lib_name[1]) # W_work
      THEN LET key == <<Lower(lib_name[1]), unit_name>>
           IN  IF key \in Keys(umap) THEN Get(umap, key) ELSE <<>>
      ELSE GatherAll(umap, unit_name)

\* lines 142-180: the matches of one VHDL file, in order
RECURSIVE vhdl_matches(_, _, _, _)
vhdl_matches(file_path, refs, umap, acc) ==
    IF refs = <<>> \/ acc.raised THEN acc
    ELSE LET lib_name == Head(refs)[1]
             raw_unit_name == Head(refs)[2]
             unit_name == Lower(raw_unit_name)
             current_file_dir == dirname(abspath(file_path))
             path_candidates == gather_candidates(umap, lib_name, unit_name)
             best_match_path ==
                 IF Len(path_candidates) > 1
                   THEN get_best_path_by_proximity(current_file_dir, path_candidates)
                   ELSE path_candidates[1]
             original_dep_str ==
                 IF lib_name # None /\ lib_name[1] # <<>>
                   THEN lib_name[1] \o <<".">> \o raw_unit_name ELSE raw_unit_name
         IN  IF path_candidates # <<>>
               THEN vhdl_matches(file_path, Tail(refs), umap,
                      [acc EXCEPT
                         !.diag = IF Len(path_candidates) > 1
                                    THEN @ \cup {Diag("ambiguity", basename(file_path),
                                                      raw_unit_name)}
                                    ELSE @,
                         !.deps = IF best_match_path # None
                                    THEN @ \cup {best_match_path} ELSE @])
             ELSE IF lib_name = None
               \* line 179: None has no attribute 'lower'
               THEN [acc EXCEPT !.raised = TRUE]
             ELSE IF Lower(lib_name[1]) # W_ieee
               THEN vhdl_matches(file_path, Tail(refs), umap,
                      [acc EXCEPT !.diag = @ \cup {Diag("unresolved", basename(file_path),
                                                        original_dep_str)}])
             ELSE vhdl_matches(file_path, Tail(refs), umap, acc)

\* lines 184-188
RECURSIVE verilog_includes(_, _, _)
verilog_includes(file_path, incs, acc) ==
    IF incs = <<>> THEN acc
    ELSE LET current_file_dir == dirname(abspath(file_path))
             abs_include_path == normpath(abspath(pathjoin(current_file_dir, Head(incs))))
         IN  IF exists(abs_include_path)
               THEN verilog_includes(file_path, Tail(incs),
                      [acc EXCEPT !.deps = @ \cup {abs_include_path},
                                  !.includes = @ \cup {normcase(abs_include_path)}])
               ELSE verilog_includes(file_path, Tail(incs), acc)

\* lines 189-194
RECURSIVE verilog_insts(_, _, _, _, _)
verilog_insts(file_path, names, umap, dflt, acc) ==
    IF names = <<>> THEN acc
    ELSE LET module_name == Lower(Head(names))
             key == <<Lower(dflt), module_name>>
             current_file_dir == dirname(abspath(file_path))
         IN  IF key \in Keys(umap)
               THEN verilog_insts(file_path, Tail(names), umap, dflt,
                      [acc EXCEPT !.deps = @ \cup
                          {get_best_path_by_proximity(current_file_dir, Get(umap, key))}])
               ELSE verilog_insts(file_path, Tail(names), umap, dflt, acc)

NoDeps == [deps |-> {}, diag |-> {}, includes |-> {}, raised |-> FALSE]

find_dependencies_in_file(file_path, umap, dflt) ==
    IF ~CanRead(file_path) THEN NoDeps
    ELSE LET f == FileAt(abspath(file_path))
         IN  IF IsVhdlName(file_path)
               THEN vhdl_matches(file_path, f.uses \o f.insts, umap, NoDeps)
             ELSE IF IsVerilogName(file_path)
               THEN verilog_insts(file_path, f.vinsts, umap, dflt,
                                  verilog_includes(file_path, f.includes, NoDeps))
             ELSE NoDeps

(***************************************************************************)
(* The unit index is a defaultdict(list): a subscript with a key it lacks  *)
(* would insert that key with an empty bucket.                             *)
(***************************************************************************)
\* mutant: the bucket is read by a bare subscript, unit_map[key]
subscript_inserting(umap, key) ==
    IF key \in Keys(umap) THEN umap ELSE Put(umap, key, <<>>)

\* lines 154-155 and 192-193: the subscript is under `if key in unit_map`
subscript_guarded(umap, key) == umap

\* the keys find_dependencies_in_file looks up for a file: (hint, unit) of
\* every explicit VHDL reference, (default_lib, module) of every Verilog match
looked_up_keys(file_path, dflt) ==
    IF ~CanRead(file_path) THEN <<>>
    ELSE LET f == FileAt(abspath(file_path))
             refs == f.uses \o f.insts
             explicit == SelectSeq(refs, LAMBDA r :
                             r[1] # None /\ r[1][1] # <<>> /\ Lower(r[1][1]) # W_work)
         IN  IF IsVhdlName(file_path)
               THEN [i \in 1..Len(explicit) |->
                        <<Lower(explicit[i][1][1]), Lower(explicit[i][2])>>]
             ELSE IF IsVerilogName(file_path)
               THEN [i \in 1..Len(f.vinsts) |-> <<Lower(dflt), Lower(f.vinsts[i])>>]
             ELSE <<>>

RECURSIVE index_after_lookups(_, _)
index_after_lookups(umap, keys) ==
    IF keys = <<>> THEN umap
    ELSE index_after_lookups(subscript_guarded(umap, Head(keys)), Tail(keys))

\* the unit index once find_dependencies_in_file has run on a file
index_after_find(file_path, umap, dflt) ==
    index_after_lookups(umap, looked_up_keys(file_path, dflt))

(***************************************************************************)
(* main, up to the index: lines 408-431.                                   *)
(***************************************************************************)
inputs == << disk, top_level_file, lib_map_args, default_lib, search_path >>

resolver == << path_cache, stack, visited, ordered_files, trace_exp >>

libsort == << sources_by_lib, lib_graph, todo_files, graph_copy, queue,
              sorted_order, final_dict, file_entries >>

MainBuild ==
    /\ pc = "start"
    /\ IF ~isfile(top_level_file) \/ \E i \in 1..Len(search_path) : ~isdir(search_path[i])
         THEN /\ pc' = "aborted"
              /\ UNCHANGED << unit_map, file_to_lib_map >>
         ELSE LET built == build_design_unit_map(walk_all(search_path),
                                                 parse_lib_map(lib_map_args),
                                                 default_lib)
              IN  /\ unit_map' = built.unit_map
                  /\ file_to_lib_map' = built.file_to_lib_map
                  /\ pc' = "resolve_init"
    /\ UNCHANGED << inputs, INCLUDE_FILES, resolver, diag, prev_ordered, run, libsort >>

(***************************************************************************)
(* resolve_dependency_tree: lines 204-221, then one action per iteration   *)
(* of the loop of lines 223-258.                                           *)
(***************************************************************************)
RECURSIVE CachePaths(_, _)
CachePaths(paths, cache) ==
    IF paths = <<>> THEN cache
    ELSE CachePaths(Tail(paths),
                    Put(cache, normcase(abspath(Head(paths))), abspath(Head(paths))))

RECURSIVE CacheUnits(_, _)
CacheUnits(umap, cache) ==
    IF umap = <<>> THEN cache
    ELSE CacheUnits(Tail(umap), CachePaths(Head(umap).val, cache))

ResolveInit ==
    /\ pc = "resolve_init"
    /\ LET initial_top_path == abspath(top_level_file)
           norm_top_path == normcase(initial_top_path)
           cache == CacheUnits(unit_map, <<>>)
       IN  /\ path_cache' = IF norm_top_path \in Keys(cache) THEN cache
                            ELSE Put(cache, norm_top_path, initial_top_path)
           /\ stack' = << [path |-> norm_top_path, it |-> None] >>
           /\ visited' = {norm_top_path}
    /\ ordered_files' = <<>>
    /\ pc' = "resolve_loop"
    /\ UNCHANGED << inputs, unit_map, file_to_lib_map, INCLUDE_FILES, diag, trace_exp,
                    prev_ordered, run, libsort >>

\* list(dependencies): a set of str lists in an order that follows the
\* strings' hashes, which Python randomizes per process
Orders(S) ==
    {s \in [1..Cardinality(S) -> S] : \A i, j \in 1..Cardinality(S) : s[i] = s[j] => i = j}

StackPaths(stk) == {stk[i].path : i \in 1..Len(stk)}

Pop(stk) == SubSeq(stk, 1, Len(stk) - 1)

\* mutant: the cursor ends at the first dependency that is visited already
stop_at_visited(it, seen) ==
    IF it = <<>> \/ Head(it) \in seen THEN <<>> ELSE it

\* next(dep for dep in dep_iterator if dep not in visited): the cursor after it
RECURSIVE SkipVisited(_, _)
SkipVisited(it, seen) ==
    IF it = <<>> \/ Head(it) \notin seen THEN it ELSE SkipVisited(Tail(it), seen)

\* mutant: a closed frame is put in front of the output
emit_first(out, path) == <<path>> \o out

\* line 254: ordered_files.append(original_path_to_add)
emit(out, path) == Append(out, path)

\* mutant: a pushed file is not recorded as visited
mark_nothing(seen, path) == seen

\* line 249: visited.add(next_dep)
mark_visited(seen, path) == seen \cup {path}

\* lines 244-258, for the top frame cur with its cursor at it; printed is
\* what has been printed up to line 243
Pull(cur, it, cache, printed) ==
    LET rest == SkipVisited(it, visited)
    IN  IF rest = <<>>
          \* StopIteration: the frame is closed
          THEN /\ stack' = Pop(stack)
               /\ ordered_files' = emit(ordered_files, Get(cache, cur))
               /\ visited' = visited
               /\ diag' = printed
          ELSE LET next_dep == Head(rest)
                   advanced == Append(Pop(stack), [path |-> cur, it |-> Some(Tail(rest))])
               IN  IF next_dep \in StackPaths(stack)
                     THEN /\ diag' = printed \cup
                                {Diag("cycle", basename(GetOr(cache, next_dep, next_dep)), None)}
                          /\ stack' = advanced
                          /\ UNCHANGED << visited, ordered_files >>
                     ELSE /\ visited' = mark_visited(visited, next_dep)
                          /\ stack' = Append(advanced, [path |-> next_dep, it |-> None])
                          /\ ordered_files' = ordered_files
                          /\ diag' = printed

ResolveLoop ==
    /\ pc = "resolve_loop"
    /\ stack # <<>>
    /\ LET frame == stack[Len(stack)]
           current_norm_path == frame.path
       IN  IF frame.it # None
             THEN /\ Pull(current_norm_path, frame.it[1], path_cache, diag)
                  /\ UNCHANGED << pc, path_cache, INCLUDE_FILES, trace_exp, unit_map >>
           ELSE IF \/ current_norm_path \notin Keys(path_cache)
                   \/ ~exists(Get(path_cache, current_norm_path))
             THEN /\ stack' = Pop(stack)
                  /\ UNCHANGED << pc, path_cache, INCLUDE_FILES, trace_exp, visited,
                                  ordered_files, diag, unit_map >>
           ELSE LET original_path == Get(path_cache, current_norm_path)
                    found == find_dependencies_in_file(original_path, unit_map, default_lib)
                IN  /\ unit_map' = index_after_find(original_path, unit_map, default_lib)
                    /\ IF found.raised
                      THEN /\ pc' = "crashed"
                           /\ diag' = diag \cup found.diag
                           /\ INCLUDE_FILES' = INCLUDE_FILES \cup found.includes
                           /\ UNCHANGED << resolver >>
                      ELSE \E raw_deps \in Orders(found.deps) :
                             LET normalized_deps ==
                                     [i \in 1..Len(raw_deps) |-> normcase(abspath(raw_deps[i]))]
                                 cache == CachePaths(
                                     SelectSeq(raw_deps, LAMBDA d :
                                         normcase(abspath(d)) \notin Keys(path_cache)),
                                     path_cache)
                             IN  /\ path_cache' = cache
                                 /\ INCLUDE_FILES' = INCLUDE_FILES \cup found.includes
                                 /\ trace_exp' = Put(trace_exp, current_norm_path,
                                       [on_stack |-> StackPaths(stack),
                                        deps |-> Range(normalized_deps)])
                                 /\ Pull(current_norm_path, normalized_deps, cache,
                                         diag \cup found.diag)
                                 /\ pc' = pc
    /\ UNCHANGED << inputs, file_to_lib_map, prev_ordered, run, libsort >>

(***************************************************************************)
(* main, lines 433-438, with generate_yaml_file (lines 268-286).           *)
(***************************************************************************)
\* os.path.splitext(path)[1].lower()
ext_of(path) ==
    LET name == basename(path)
        dot == RFindFrom(name, ".", Len(name))
    IN  IF dot <= 1 THEN <<>> ELSE Lower(SubSeq(name, dot, Len(name)))

get_file_type(file_path) ==
    LET ext == ext_of(file_path)
    IN  IF ext = ExtVhd \/ ext = ExtVhdl THEN "vhdlSource"
        ELSE IF ext = ExtV THEN "verilogSource-2001"
        ELSE IF ext = ExtSv THEN "systemVerilogSource-2017"
        ELSE "unknown"

yaml_entry(abs_path) ==
    LET rel_path == relpath(abs_path)
        norm_abs_path == normcase(abs_path)
        is_include == norm_abs_path \in INCLUDE_FILES
    IN  [name |-> rel_path, file_type |-> get_file_type(rel_path),
         is_include_file |-> is_include,
         logical_name |-> IF ~is_include
                            THEN GetOr(file_to_lib_map, norm_abs_path, default_lib)
                            ELSE <<>>]

ResolveReturn ==
    /\ pc = "resolve_loop"
    /\ stack = <<>>
    /\ IF ordered_files = <<>>
         THEN /\ pc' = "aborted"
              /\ file_entries' = file_entries
         ELSE /\ file_entries' = [i \in 1..Len(ordered_files) |-> yaml_entry(ordered_files[i])]
              /\ pc' = "dict_group"
    /\ UNCHANGED << inputs, unit_map, file_to_lib_map, INCLUDE_FILES, resolver, diag,
                    prev_ordered, run, sources_by_lib, lib_graph, todo_files, graph_copy,
                    queue, sorted_order, final_dict >>

(***************************************************************************)
(* generate_python_dict (run with --py-dict).                              *)
(***************************************************************************)
\* mutant: include files are grouped like any other file
RECURSIVE group_all_files(_, _)
group_all_files(files, acc) ==
    IF files = <<>> THEN acc
    ELSE group_all_files(Tail(files),
             AppendTo(acc, GetOr(file_to_lib_map, normcase(Head(files)), default_lib),
                      relpath(Head(files))))

\* lines 311-317
RECURSIVE group_files(_, _)
group_files(files, acc) ==
    IF files = <<>> THEN acc
    ELSE LET abs_path == Head(files)
             norm_abs_path == normcase(abs_path)
             rel_path == relpath(abs_path)
             logical_name == GetOr(file_to_lib_map, norm_abs_path, default_lib)
         IN  IF norm_abs_path \in INCLUDE_FILES
               THEN group_files(Tail(files), acc)
               ELSE group_files(Tail(files), AppendTo(acc, logical_name, rel_path))

RECURSIVE Flatten(_)
Flatten(d) == IF d = <<>> THEN <<>> ELSE Head(d).val \o Flatten(Tail(d))

\* lines 311-324
GroupByLib ==
    /\ pc = "dict_group"
    /\ LET grouped == group_files(ordered_files, <<>>)
       IN  /\ sources_by_lib' = grouped
           /\ lib_graph' = [i \in 1..Len(grouped) |-> [key |-> grouped[i].key, val |-> {}]]
           /\ todo_files' = Flatten(grouped)
    /\ pc' = "dict_graph"
    /\ UNCHANGED << inputs, unit_map, file_to_lib_map, INCLUDE_FILES, resolver, diag,
                    prev_ordered, run, graph_copy, queue, sorted_order, final_dict,
                    file_entries >>

\* lines 334-336: the libraries of a file's dependencies
dep_libs(deps) ==
    {GetOr(file_to_lib_map, normcase(abspath(d)), default_lib) : d \in deps}

\* mutant: an edge is added for every dependency, whatever its library
every_lib(source_lib, libs) == libs

\* lines 339-340: only a dependency in a different library adds an edge
different_libs(source_lib, libs) == libs \ {source_lib}

\* lines 326-340: one iteration of the loop over all_source_files
ScanSourceFile ==
    /\ pc = "dict_graph"
    /\ todo_files # <<>>
    /\ LET source_abs_path == abspath(Head(todo_files))
           source_norm_path == normcase(source_abs_path)
           source_lib == GetOr(file_to_lib_map, source_norm_path, default_lib)
           found == find_dependencies_in_file(source_abs_path, unit_map, default_lib)
           other_libs == different_libs(source_lib, dep_libs(found.deps))
       IN  /\ diag' = diag \cup found.diag
           /\ INCLUDE_FILES' = INCLUDE_FILES \cup found.includes
           /\ unit_map' = index_after_find(source_abs_path, unit_map, default_lib)
           /\ IF found.raised \/ (other_libs # {} /\ source_lib \notin Keys(lib_graph))
                THEN /\ pc' = "crashed"
                     /\ UNCHANGED << lib_graph, todo_files >>
                ELSE /\ lib_graph' =
                           IF other_libs = {} THEN lib_graph
                           ELSE Put(lib_graph, source_lib,
                                    Get(lib_graph, source_lib) \cup other_libs)
                     /\ todo_files' = Tail(todo_files)
                     /\ pc' = pc
    /\ UNCHANGED << inputs, file_to_lib_map, resolver, prev_ordered, run,
                    sources_by_lib, graph_copy, queue, sorted_order, final_dict,
                    file_entries >>

\* lines 345-360
KahnInit ==
    /\ pc = "dict_graph"
    /\ todo_files = <<>>
    /\ graph_copy' = lib_graph
    /\ queue' = KeyList(SelectSeq(lib_graph, LAMBDA e : e.val = {}))
    /\ sorted_order' = <<>>
    /\ pc' = "dict_kahn"
    /\ UNCHANGED << inputs, unit_map, file_to_lib_map, INCLUDE_FILES, resolver, diag,
                    prev_ordered, run, sources_by_lib, lib_graph, todo_files, final_dict,
                    file_entries >>

\* lines 367-371: remove node from every dependency set, in dict order
RECURSIVE remove_edges(_, _, _, _)
remove_edges(graph, i, node, q) ==
    IF i > Len(graph) THEN [graph |-> graph, queue |-> q]
    ELSE IF node \in graph[i].val
      THEN LET other_deps == graph[i].val \ {node}
           IN  remove_edges([graph EXCEPT ![i].val = other_deps], i + 1, node,
                            IF other_deps = {} THEN Append(q, graph[i].key) ELSE q)
      ELSE remove_edges(graph, i + 1, node, q)

\* lines 362-371: one iteration of the while loop
KahnStep ==
    /\ pc = "dict_kahn"
    /\ queue # <<>>
    /\ LET node == Head(queue)
           after == remove_edges(graph_copy, 1, node, Tail(queue))
       IN  /\ sorted_order' = Append(sorted_order, node)
           /\ graph_copy' = after.graph
           /\ queue' = after.queue
    /\ UNCHANGED << inputs, pc, unit_map, file_to_lib_map, INCLUDE_FILES, resolver, diag,
                    prev_ordered, run, sources_by_lib, lib_graph, todo_files, final_dict,
                    file_entries >>

\* lines 373-379
ordered_libraries(graph, order) ==
    IF Len(order) # Len(graph) THEN KeyList(graph) ELSE order

\* lines 382-385
RECURSIVE build_final_dict(_, _)
build_final_dict(libs, acc) ==
    IF libs = <<>> THEN acc
    ELSE LET lib_key == Head(libs)
             display_key == IF lib_key = default_lib THEN W_work ELSE lib_key
         IN  build_final_dict(Tail(libs),
                              Put(acc, display_key, GetOr(sources_by_lib, lib_key, <<>>)))

\* lines 373-389
BuildFinalDict ==
    /\ pc = "dict_kahn"
    /\ queue = <<>>
    /\ diag' = IF Len(sorted_order) # Len(lib_graph)
                 THEN diag \cup {Diag("library_cycle", None, None)} ELSE diag
    /\ final_dict' = build_final_dict(ordered_libraries(lib_graph, sorted_order), <<>>)
    /\ pc' = "done"
    /\ UNCHANGED << inputs, unit_map, file_to_lib_map, INCLUDE_FILES, resolver,
                    prev_ordered, run, sources_by_lib, lib_graph, todo_files, graph_copy,
                    queue, sorted_order, file_entries >>

(***************************************************************************)
(* A second run of the program on the same input (a new process).          *)
(***************************************************************************)
InitRun ==
    /\ pc = "start"
    /\ unit_map = <<>>
    /\ file_to_lib_map = <<>>
    /\ INCLUDE_FILES = {}
    /\ path_cache = <<>>
    /\ stack = <<>>
    /\ visited = {}
    /\ ordered_files = <<>>
    /\ diag = {}
    /\ trace_exp = <<>>
    /\ prev_ordered = None
    /\ run = 1
    /\ sources_by_lib = <<>>
    /\ lib_graph = <<>>
    /\ todo_files = <<>>
    /\ graph_copy = <<>>
    /\ queue = <<>>
    /\ sorted_order = <<>>
    /\ final_dict = <<>>
    /\ file_entries = <<>>

Rerun ==
    /\ pc = "done"
    /\ run < MaxRuns
    /\ prev_ordered' = Some(ordered_files)
    /\ run' = run + 1
    /\ pc' = "start"
    /\ unit_map' = <<>>
    /\ file_to_lib_map' = <<>>
    /\ INCLUDE_FILES' = {}
    /\ path_cache' = <<>>
    /\ stack' = <<>>
    /\ visited' = {}
    /\ ordered_files' = <<>>
    /\ diag' = {}
    /\ trace_exp' = <<>>
    /\ sources_by_lib' = <<>>
    /\ lib_graph' = <<>>
    /\ todo_files' = <<>>
    /\ graph_copy' = <<>>
    /\ queue' = <<>>
    /\ sorted_order' = <<>>
    /\ final_dict' = <<>>
    /\ file_entries' = <<>>
    /\ UNCHANGED inputs

(***************************************************************************)
(* Inputs.                                                                 *)
(***************************************************************************)
\* the subsequences of pool with at most max elements
Pick(pool, I) ==
    LET idx == SelectSeq([i \in 1..Len(pool) |-> i], LAMBDA i : i \in I)
    IN  [k \in 1..Len(idx) |-> pool[idx[k]]]

SubSeqs(pool, max) ==
    {Pick(pool, I) : I \in {J \in SUBSET (1..Len(pool)) : Cardinality(J) <= max}}

\* the sequences of at most max distinct elements of S
Arrangements(S, max) ==
    UNION {{s \in [1..n -> S] : \A i, j \in 1..n : s[i] = s[j] => i = j} : n \in 0..max}

N_top == <<"t", "o", "p">>
N_x == <<"x">>
N_y == <<"y">>
N_zz == <<"z", "z">>

Vhd(name) == name \o ExtVhd

\* File-order fixtures: three VHDL files, each defining the entity named
\* after it and instantiating up to MaxRefs of: x, y, top, and work.zz,
\* which nothing defines.
RefPool == << <<None, N_x>>, <<None, N_y>>, <<None, N_top>>, <<Some(W_work), N_zz>> >>

OrderFile(name, insts) ==
    [EmptyFile(abspath(Vhd(name))) EXCEPT !.entities = <<name>>, !.insts = insts]

InitOrder ==
    /\ \E rt, rx, ry \in SubSeqs(RefPool, MaxRefs) :
          disk = << OrderFile(N_top, rt), OrderFile(N_x, rx), OrderFile(N_y, ry) >>
    /\ top_level_file = Vhd(N_top)
    /\ lib_map_args = <<>>
    /\ search_path = DefaultSearchPath
    /\ default_lib = <<>>
    /\ InitRun

\* Reference fixtures: a/ref.vhd holds one instantiation of Adder, with or
\* without a library hint; a/b/def1.vhd and c/def2.vhd each define adder,
\* mux or nothing; the rules may map a/b to liba and c to libc; the walk
\* meets directory a or directory c first.
N_adder == <<"a", "d", "d", "e", "r">>
N_Adder == <<"A", "d", "d", "e", "r">>
N_mux == <<"m", "u", "x">>
L_liba == <<"l", "i", "b", "a">>
L_libc == <<"l", "i", "b", "c">>
L_Work == <<"W", "o", "r", "k">>
P_ref == <<"a", "/", "r", "e", "f">> \o ExtVhd
P_def1 == <<"a", "/", "b", "/", "d", "e", "f", "1">> \o ExtVhd
P_def2 == <<"c", "/", "d", "e", "f", "2">> \o ExtVhd
A_liba == L_liba \o <<":", "a", "/", "b">>
A_libc == L_libc \o <<":", "c">>

FindHints == {None, Some(L_Work), Some(L_liba), Some(W_ieee)}

DefChoices == {<<>>, <<N_adder>>, <<N_mux>>}

InitFind ==
    /\ \E hint \in FindHints, e1, e2 \in DefChoices, c_first \in BOOLEAN :
          LET ref == [EmptyFile(abspath(P_ref)) EXCEPT !.insts = << <<hint, N_Adder>> >>]
              def1 == [EmptyFile(abspath(P_def1)) EXCEPT !.entities = e1]
              def2 == [EmptyFile(abspath(P_def2)) EXCEPT !.entities = e2]
          IN  disk = IF c_first THEN <<def2, ref, def1>> ELSE <<ref, def1, def2>>
    /\ top_level_file = P_ref
    /\ lib_map_args \in Arrangements({A_liba, A_libc}, MaxRules)
    /\ search_path = DefaultSearchPath
    /\ default_lib = <<>>
    /\ InitRun

\* Classification fixtures: one VHDL file, and up to MaxRules --lib-map
\* arguments, of which one names no path, one is written un-normalized and
\* one names the library 'work', which --library may name too.
D_src == <<"s", "r", "c">>
D_special == <<"s", "p", "e", "c", "i", "a", "l">>
P_special_x == Join(<<D_src, D_special, <<"x">> \o ExtVhd>>, "/")
P_other_y == Join(<<D_src, <<"o", "t", "h", "e", "r">>, <<"y">> \o ExtVhd>>, "/")
P_specialx_z == Join(<<D_src, D_special \o <<"x">>, <<"z">> \o ExtVhd>>, "/")
P_lib_w == Join(<<<<"l", "i", "b">>, <<"w">> \o ExtVhd>>, "/")
L_libA == <<"l", "i", "b", "A">>
L_libB == <<"l", "i", "b", "B">>
L_libC == <<"l", "i", "b", "C">>
A_libA == L_libA \o <<":">> \o D_src
A_libB == L_libB \o <<":">> \o Join(<<D_src, D_special>>, "/")
A_libC == L_libC \o <<":", ".", "/">> \o D_src \o <<"/">>
A_work == W_work \o <<":">> \o Join(<<D_src, <<"o", "t", "h", "e", "r">>>>, "/")
A_bad == <<"l", "i", "b", "D">>

InitClassify ==
    /\ \E path \in {P_special_x, P_other_y, P_specialx_z, P_lib_w} :
          /\ disk = << EmptyFile(abspath(path)) >>
          /\ top_level_file = path
    /\ lib_map_args \in Arrangements({A_libA, A_libB, A_libC, A_work, A_bad}, MaxRules)
    /\ search_path = DefaultSearchPath
    /\ default_lib \in {<<>>, W_work}
    /\ InitRun

\* Library-order fixtures: Verilog files p/t.v (the top level), p/p0.v and
\* q/g.v and the header q/h.vh; t may instantiate p0 and g and include the
\* header or the source p0.v, p0 may instantiate g, g may instantiate p0 and
\* include the header; the rules may map p to P and q to Q.
N_t == <<"t">>
N_p0 == <<"p", "0">>
N_g == <<"g">>
L_P == <<"P">>
L_Q == <<"Q">>
P_t == <<"p", "/", "t">> \o ExtV
P_p0 == <<"p", "/", "p", "0">> \o ExtV
P_g == <<"q", "/", "g">> \o ExtV
P_h == <<"q", "/", "h", ".", "v", "h">>
I_h == <<"h", ".", "v", "h">>
I_qh == <<".", ".", "/", "q", "/", "h", ".", "v", "h">>
I_p0 == <<"p", "0">> \o ExtV
A_P == L_P \o <<":", "p">>
A_Q == L_Q \o <<":", "q">>

InitLib ==
    /\ \E it \in SubSeqs(<<N_p0, N_g>>, MaxRefs), ip, ig, hg \in BOOLEAN,
          ht \in {<<>>, <<I_qh>>, <<I_p0>>} :
          disk = << [EmptyFile(abspath(P_t)) EXCEPT
                        !.modules = <<N_t>>, !.vinsts = it,
                        !.includes = ht],
                    [EmptyFile(abspath(P_p0)) EXCEPT
                        !.modules = <<N_p0>>,
                        !.vinsts = IF ip THEN <<N_g>> ELSE <<>>],
                    [EmptyFile(abspath(P_g)) EXCEPT
                        !.modules = <<N_g>>,
                        !.vinsts = IF ig THEN <<N_p0>> ELSE <<>>,
                        !.includes = IF hg THEN <<I_h>> ELSE <<>>],
                    EmptyFile(abspath(P_h)) >>
    /\ top_level_file = P_t
    /\ lib_map_args \in Arrangements({A_P, A_Q}, MaxRules)
    /\ search_path = DefaultSearchPath
    /\ default_lib = <<>>
    /\ InitRun

\* Search-root fixtures: the files of the reference fixtures, a top-level
\* file that may be missing, a definer that may be unreadable, a rule that
\* may be malformed, and one to MaxRoots search roots among ".", "a", "c"
\* and the missing directory "m".
P_none == <<"a", "/", "n", "o">> \o ExtVhd
R_cwd == <<".">>
R_a == <<"a">>
R_c == <<"c">>
R_m == <<"m">>

InitRoots ==
    /\ \E hint \in FindHints, e1 \in {<<>>, <<N_adder>>}, r1 \in BOOLEAN :
          disk = << [EmptyFile(abspath(P_ref)) EXCEPT !.insts = << <<hint, N_Adder>> >>],
                    [EmptyFile(abspath(P_def1)) EXCEPT !.entities = e1, !.readable = r1],
                    [EmptyFile(abspath(P_def2)) EXCEPT !.entities = <<N_adder>>] >>
    /\ top_level_file \in {P_ref, P_none}
    /\ lib_map_args \in {<<>>, <<A_bad>>, <<A_liba>>}
    /\ search_path \in Arrangements({R_cwd, R_a, R_c, R_m}, MaxRoots) \ {<<>>}
    /\ default_lib = <<>>
    /\ InitRun

\* Reserved-word fixtures: the Verilog top level t.v with up to MaxRefs
\* instantiation-like matches led by reg, sub or wire; k/reg.vhd, which may
\* define the entity reg; sub.v, which defines the module sub and may hold
\* the text of a module named wire; the rule K:k may be given.
N_reg == <<"r", "e", "g">>
N_sub == <<"s", "u", "b">>
N_wire == <<"w", "i", "r", "e">>
P_tv == N_t \o ExtV
P_regvhd == <<"k", "/">> \o N_reg \o ExtVhd
P_subv == N_sub \o ExtV
A_K == <<"K", ":", "k">>

InitKeywords ==
    /\ \E it \in SubSeqs(<<N_reg, N_sub, N_wire>>, MaxRefs),
          er \in {<<>>, <<N_reg>>}, ms \in {<<N_sub>>, <<N_sub, N_wire>>} :
          disk = << [EmptyFile(abspath(P_tv)) EXCEPT !.modules = <<N_t>>, !.vinsts = it],
                    [EmptyFile(abspath(P_regvhd)) EXCEPT !.entities = er],
                    [EmptyFile(abspath(P_subv)) EXCEPT !.modules = ms] >>
    /\ top_level_file = P_tv
    /\ lib_map_args \in {<<>>, <<A_K>>}
    /\ search_path = DefaultSearchPath
    /\ default_lib \in {<<>>, W_work}
    /\ InitRun

\* Tie fixtures: a/ref.vhd refers to adder without hint or with 'work';
\* c/d1.vhd, a/y/d2.vhd and a/x/d3.vhd may each define adder; the search
\* roots c, a/y and a/x are walked in any order, or the current directory
\* is; the rule B:a/y may be given.
R_ay == <<"a", "/", "y">>
R_ax == <<"a", "/", "x">>
P_d1 == R_c \o <<"/", "d", "1">> \o ExtVhd
P_d2 == R_ay \o <<"/", "d", "2">> \o ExtVhd
P_d3 == R_ax \o <<"/", "d", "3">> \o ExtVhd
A_B == <<"B", ":">> \o R_ay

InitTie ==
    /\ \E hint \in {None, Some(W_work)}, e1, e2, e3 \in {<<>>, <<N_adder>>} :
          disk = << [EmptyFile(abspath(P_ref)) EXCEPT !.insts = << <<hint, N_adder>> >>],
                    [EmptyFile(abspath(P_d3)) EXCEPT !.entities = e3],
                    [EmptyFile(abspath(P_d2)) EXCEPT !.entities = e2],
                    [EmptyFile(abspath(P_d1)) EXCEPT !.entities = e1] >>
    /\ top_level_file = P_ref
    /\ lib_map_args \in {<<>>, <<A_B>>}
    /\ search_path \in Orders({R_c, R_ay, R_ax}) \cup {DefaultSearchPath}
    /\ default_lib = <<>>
    /\ InitRun

\* Dictionary fixtures: the top-level file lib/w.vhd may instantiate y of
\* src/other/y.vhd and work.x of src/special/x.vhd; up to MaxRules rules
\* among work:src/other, libA:src and libB:src/special; the default library
\* is '', 'work' or 'libA'.
InitDict ==
    /\ \E it \in SubSeqs(<< <<None, N_y>>, <<Some(W_work), N_x>> >>, MaxRefs) :
          disk = << [EmptyFile(abspath(P_lib_w)) EXCEPT !.entities = <<N_top>>, !.insts = it],
                    [EmptyFile(abspath(P_other_y)) EXCEPT !.entities = <<N_y>>],
                    [EmptyFile(abspath(P_special_x)) EXCEPT !.entities = <<N_x>>] >>
    /\ top_level_file = P_lib_w
    /\ lib_map_args \in Arrangements({A_work, A_libA, A_libB}, MaxRules)
    /\ search_path = DefaultSearchPath
    /\ default_lib \in {<<>>, W_work, L_libA}
    /\ InitRun

Next ==
    \/ MainBuild
    \/ ResolveInit
    \/ ResolveLoop
    \/ ResolveReturn
    \/ GroupByLib
    \/ ScanSourceFile
    \/ KahnInit
    \/ KahnStep
    \/ BuildFinalDict

Spec == InitOrder /\ [][Next]_vars

NextRuns == Next \/ Rerun

SpecRuns == InitOrder /\ [][NextRuns]_vars

SpecFind == InitFind /\ [][Next]_vars

SpecLib == InitLib /\ [][Next]_vars

SpecRoots == InitRoots /\ [][Next]_vars

SpecKeywords == InitKeywords /\ [][Next]_vars

SpecTie == InitTie /\ [][Next]_vars

SpecDict == InitDict /\ [][Next]_vars

NextClassify == MainBuild

SpecClassify == InitClassify /\ [][NextClassify]_vars

(***************************************************************************)
(* The resolved dependency graph: the edges find_dependencies_in_file      *)
(* returned for each file when the resolver expanded it (trace_exp).       *)
(***************************************************************************)
Edges(a) == IF a \in Keys(trace_exp) THEN Get(trace_exp, a).deps ELSE {}

EdgeSet == UNION {{<<trace_exp[i].key, b>> : b \in trace_exp[i].val.deps} :
                     i \in 1..Len(trace_exp)}

RECURSIVE ReachSet(_, _)
ReachSet(R, S) ==
    LET nxt == S \cup {e[2] : e \in {r \in R : r[1] \in S}}
    IN  IF nxt = S THEN S ELSE ReachSet(R, nxt)

OnCycle(R, n) == n \in ReachSet(R, {e[2] : e \in {r \in R : r[1] = n}})

TopPath == normcase(abspath(top_level_file))

AcyclicFromTop(R) == \A n \in ReachSet(R, {TopPath}) : ~OnCycle(R, n)

IndexOf(seq, x) == CHOOSE i \in 1..Len(seq) : seq[i] = x

Count(seq, x) == Cardinality({i \in 1..Len(seq) : seq[i] = x})

\* resolve_dependency_tree has returned
ResolveFinished ==
    \/ pc \in {"dict_group", "dict_graph", "dict_kahn", "done"}
    \/ (pc = "resolve_loop" /\ stack = <<>>)

Expanded == {trace_exp[i].val : i \in 1..Len(trace_exp)}

(***************************************************************************)
(* C1  Topological validity: when resolve_dependency_tree has finished and *)
(* the resolved graph reachable from the top-level file is acyclic, every  *)
(* resolved edge A -> B with A in the output has B in the output at a      *)
(* strictly smaller index.                                                 *)
(***************************************************************************)
C1_TopologicalValidity ==
    (ResolveFinished /\ LET R == EdgeSet IN AcyclicFromTop(R)) =>
        \A a \in Range(ordered_files) : \A b \in Edges(a) :
            /\ b \in Range(ordered_files)
            /\ IndexOf(ordered_files, b) < IndexOf(ordered_files, a)

\* the triangle top -> x, top -> y, x -> y has been ordered
C1_Witness ==
    /\ ResolveFinished
    /\ LET R == EdgeSet IN AcyclicFromTop(R)
    /\ Cardinality(Edges(TopPath)) = 2
    /\ \E a \in Edges(TopPath) : Edges(a) # {}
    /\ Len(ordered_files) = 3

(***************************************************************************)
(* C3  No duplicate emission: no file occurs twice in the output list in   *)
(* any state, and once resolution has finished every file on a cycle       *)
(* reachable from the top-level file occurs exactly once.                  *)
(***************************************************************************)
C3_NoDuplicateEmission ==
    /\ \A i, j \in 1..Len(ordered_files) : ordered_files[i] = ordered_files[j] => i = j
    /\ ResolveFinished =>
          LET R == EdgeSet
          IN  \A n \in ReachSet(R, {TopPath}) :
                  OnCycle(R, n) => Count(ordered_files, n) = 1

\* the cycle top -> x -> top has been resolved
C3_Witness ==
    /\ ResolveFinished
    /\ \E x \in Edges(TopPath) : x # TopPath /\ TopPath \in Edges(x)
                                  /\ Count(ordered_files, x) = 1
    /\ Count(ordered_files, TopPath) = 1

(***************************************************************************)
(* C4  Cycle reporting: if a file was expanded while one of its resolved   *)
(* dependencies was on the work stack, a circular-dependency diagnostic    *)
(* has been printed by the time resolution finishes.                       *)
(***************************************************************************)
C4_CycleReported ==
    (ResolveFinished /\ \E e \in Expanded : e.deps \cap e.on_stack # {}) =>
        \E d \in diag : d.kind = "cycle"

(***************************************************************************)
(* C6  Determinism: a second run on the same files and rules produces the  *)
(* same output sequence as the first.                                      *)
(***************************************************************************)
C6_Deterministic ==
    (prev_ordered # None /\ ResolveFinished) => ordered_files = prev_ordered[1]

(***************************************************************************)
(* References and the index, restated for the claims.                      *)
(***************************************************************************)
RefsOf(path) == LET f == FileAt(path) IN f.uses \o f.insts

IsExplicit(hint) == hint # None /\ Lower(hint[1]) # W_work

Bucket(lib, name) ==
    IF <<Lower(lib), Lower(name)>> \in Keys(unit_map)
      THEN Range(Get(unit_map, <<Lower(lib), Lower(name)>>)) ELSE {}

Definers(name) ==
    UNION {Range(unit_map[i].val) : i \in {j \in 1..Len(unit_map) :
                                              unit_map[j].key[2] = Lower(name)}}

CandidateSet(ref) ==
    IF IsExplicit(ref[1]) THEN Bucket(ref[1][1], ref[2]) ELSE Definers(ref[2])

DepStr(ref) == IF ref[1] # None THEN ref[1][1] \o <<".">> \o ref[2] ELSE ref[2]

\* the files the references of k other than its i-th may resolve to
OtherTargets(k, i) ==
    {normcase(abspath(p)) : p \in UNION {CandidateSet(RefsOf(k)[j]) :
                                            j \in (1..Len(RefsOf(k))) \ {i}}}

CommonLen(k, candidate) == Len(commonpath(dirname(k), dirname(abspath(candidate))))

(***************************************************************************)
(* C2  Cycle termination: for every file set the resolution loop reaches   *)
(* the state where the work stack is empty.  Stated on finite runs: once   *)
(* the loop is over, because resolve_dependency_tree returned or because   *)
(* the run died in it, the work stack is empty.                            *)
(***************************************************************************)
C2_LoopEndsWithEmptyStack ==
    pc \notin {"start", "resolve_init", "resolve_loop", "aborted"} => stack = <<>>

\* what does hold: every iteration of the loop pushes an unvisited file or
\* closes a frame, so the loop cannot run forever
LoopMeasure(seen, stk) == 2 * Cardinality(DiskPaths \ seen) + Len(stk)

C2_LoopVariant ==
    [][(pc = "resolve_loop" /\ pc' = "resolve_loop" /\ stack # <<>>)
          => LoopMeasure(visited', stack') < LoopMeasure(visited, stack)]_vars

(***************************************************************************)
(* C5  Unresolved reference is recovered, never fatal: a reference that    *)
(* gathers no candidate (explicit hint, 'work' or no hint) adds no edge    *)
(* and find_dependencies_in_file returns normally.                         *)
(***************************************************************************)
C5_UnresolvedRecovered ==
    /\ pc # "crashed"
    /\ \A k \in Keys(trace_exp) :
          (k \in DiskPaths /\ \A i \in 1..Len(RefsOf(k)) : CandidateSet(RefsOf(k)[i]) = {})
              => Edges(k) = {}

(***************************************************************************)
(* C7  Explicit-library hard directive (as amended): a reference with an   *)
(* explicit hint L other than 'work' whose bucket (L, name) is absent      *)
(* yields no edge, whatever other libraries define the name, and is        *)
(* reported unresolved unless L is 'ieee'.                                 *)
(***************************************************************************)
C7_ExplicitHardDirective ==
    \A k \in Keys(trace_exp) \cap DiskPaths : \A i \in 1..Len(RefsOf(k)) :
        LET ref == RefsOf(k)[i]
        IN  (IsExplicit(ref[1]) /\ Bucket(ref[1][1], ref[2]) = {}) =>
                /\ Edges(k) \subseteq OtherTargets(k, i)
                /\ Lower(ref[1][1]) # W_ieee =>
                       Diag("unresolved", basename(k), DepStr(ref)) \in diag

\* C7 as claimed: such a reference is always reported unresolved
C7_AlwaysReported ==
    \A k \in Keys(trace_exp) \cap DiskPaths : \A i \in 1..Len(RefsOf(k)) :
        LET ref == RefsOf(k)[i]
        IN  (IsExplicit(ref[1]) /\ Bucket(ref[1][1], ref[2]) = {}) =>
                /\ Edges(k) \subseteq OtherTargets(k, i)
                /\ Diag("unresolved", basename(k), DepStr(ref)) \in diag

\* liba.Adder was left unresolved although another library defines adder
C7_Witness ==
    /\ TopPath \in Keys(trace_exp)
    /\ LET ref == RefsOf(TopPath)[1]
       IN  /\ IsExplicit(ref[1]) /\ Lower(ref[1][1]) # W_ieee
           /\ Bucket(ref[1][1], ref[2]) = {}
           /\ Definers(ref[2]) # {}
           /\ Edges(TopPath) = {}
           /\ Diag("unresolved", basename(TopPath), DepStr(ref)) \in diag

(***************************************************************************)
(* C8  Ambiguity-by-proximity: an implicit reference (no hint, or 'work')  *)
(* that matches definitions in several files resolves to a file whose      *)
(* common path prefix with the referencing file's directory is of maximal  *)
(* length among all candidates.                                            *)
(***************************************************************************)
C8_Proximity ==
    \A k \in Keys(trace_exp) \cap DiskPaths :
        (Len(RefsOf(k)) = 1 /\ ~IsExplicit(RefsOf(k)[1][1])
           /\ Definers(RefsOf(k)[1][2]) # {}) =>
            \E s \in Definers(RefsOf(k)[1][2]) :
                /\ Edges(k) = {normcase(abspath(s))}
                /\ \A c \in Definers(RefsOf(k)[1][2]) : CommonLen(k, c) <= CommonLen(k, s)

\* a/ref.vhd resolved adder to a/b/def1.vhd although c/def2.vhd was indexed first
C8_Witness ==
    /\ TopPath \in Keys(trace_exp)
    /\ ~IsExplicit(RefsOf(TopPath)[1][1])
    /\ Definers(RefsOf(TopPath)[1][2]) = {abspath(P_def1), abspath(P_def2)}
    /\ GatherAll(unit_map, Lower(RefsOf(TopPath)[1][2]))[1] = abspath(P_def2)
    /\ Edges(TopPath) = {abspath(P_def1)}

(***************************************************************************)
(* The mapping rules and the library of a file, restated for the claims.   *)
(***************************************************************************)
RuleSet ==
    {[path |-> normcase(normpath(SubSeq(arg, FindFrom(arg, ":", 1) + 1, Len(arg)))),
      lib |-> SubSeq(arg, 1, FindFrom(arg, ":", 1) - 1)] :
        arg \in {x \in Range(lib_map_args) : FindFrom(x, ":", 1) > 0}}

Matching(path) == {r \in RuleSet : StartsWith(normcase(relpath(path)), r.path)}

LibOf(path) == GetOr(file_to_lib_map, normcase(abspath(path)), default_lib)

(***************************************************************************)
(* C9  Longest-prefix library classification (as amended): the library     *)
(* given to a file is that of a rule whose prefix is a string-prefix of    *)
(* the file's relative path and is longest among the matching rules, and   *)
(* it is the default library when no rule matches.                         *)
(***************************************************************************)
C9_LongestPrefix ==
    pc = "resolve_init" =>
        \A f \in DiskPaths :
            /\ normcase(f) \in Keys(file_to_lib_map)
            /\ Matching(f) = {} => LibOf(f) = default_lib
            /\ Matching(f) # {} =>
                  \E r \in Matching(f) :
                      /\ r.lib = LibOf(f)
                      /\ \A r2 \in Matching(f) : Len(r2.path) <= Len(r.path)

\* C9 as claimed: the default library is returned exactly when no rule matches
C9_DefaultExactly ==
    pc = "resolve_init" =>
        \A f \in DiskPaths :
            /\ Matching(f) # {} =>
                  \E r \in Matching(f) :
                      /\ r.lib = LibOf(f)
                      /\ \A r2 \in Matching(f) : Len(r2.path) <= Len(r.path)
            /\ LibOf(f) = default_lib <=> Matching(f) = {}

\* src/special/x.vhd went to libB under the rules libA:src and libB:src/special
C9_Witness ==
    /\ pc = "resolve_init"
    /\ DiskPaths = {abspath(P_special_x)}
    /\ Range(lib_map_args) = {A_libA, A_libB}
    /\ LibOf(abspath(P_special_x)) = L_libB

(***************************************************************************)
(* C10  Library order respects cross-library edges: when the library       *)
(* graph is acyclic, for every resolved edge from a file of library P to a *)
(* file of another library Q, Q comes before P among the keys of the       *)
(* dictionary, and every library appears there exactly once.               *)
(***************************************************************************)
LibEdges == UNION {{<<lib_graph[i].key, q>> : q \in lib_graph[i].val} :
                      i \in 1..Len(lib_graph)}

LibGraphAcyclic == LET R == LibEdges IN \A l \in Keys(lib_graph) : ~OnCycle(R, l)

DisplayKey(lib) == IF lib = default_lib THEN W_work ELSE lib

\* the files of the compile order that are not include files
Sources == {f \in Range(ordered_files) : normcase(f) \notin INCLUDE_FILES}

C10_LibraryOrder ==
    (pc = "done" /\ LibGraphAcyclic) =>
        /\ \A a \in Sources : \A b \in Edges(a) \cap Sources :
              LibOf(a) # LibOf(b) =>
                  /\ DisplayKey(LibOf(a)) \in Keys(final_dict)
                  /\ DisplayKey(LibOf(b)) \in Keys(final_dict)
                  /\ Lookup(final_dict, DisplayKey(LibOf(b)))
                        < Lookup(final_dict, DisplayKey(LibOf(a)))
        /\ \A l \in {LibOf(f) : f \in Sources} :
              Count(KeyList(final_dict), DisplayKey(l)) = 1

(***************************************************************************)
(* C11  Library-cycle detection is exact: whenever Kahn's pass ends having *)
(* emitted fewer libraries than the library graph holds, so that the cycle *)
(* diagnostic is printed and the insertion order is used, the library      *)
(* graph contains a dependency cycle among its libraries.                  *)
(***************************************************************************)
C11_LibraryCycleExact ==
    (pc = "done" /\ Len(sorted_order) # Len(lib_graph))
        => /\ Diag("library_cycle", <<>>, <<>>) \in diag
           /\ ~LibGraphAcyclic

(***************************************************************************)
(* C12  Include-file exclusion: every file reached through an `include of  *)
(* an expanded file is written to the compile-order records with           *)
(* is_include_file true and an empty logical library, and is in no         *)
(* library's list of the dictionary.                                       *)
(***************************************************************************)
\* the targets of the `include lines of an expanded Verilog file that exist
IncludesOf(k) ==
    IF k \in DiskPaths /\ IsVerilogName(k) /\ FileAt(k).readable
      THEN {t \in {normpath(abspath(pathjoin(dirname(k), FileAt(k).includes[i]))) :
                      i \in 1..Len(FileAt(k).includes)} : exists(t)}
      ELSE {}

Included == UNION {IncludesOf(k) : k \in Keys(trace_exp)}

Written == pc \in {"dict_group", "dict_graph", "dict_kahn", "done"}

C12_IncludeExclusion ==
    Written =>
        \A t \in Included :
            /\ \E i \in 1..Len(file_entries) : file_entries[i].name = relpath(t)
            /\ \A i \in 1..Len(file_entries) :
                  file_entries[i].name = relpath(t)
                      => /\ file_entries[i].is_include_file
                         /\ file_entries[i].logical_name = <<>>
            /\ \A i \in 1..Len(sources_by_lib) : relpath(t) \notin Range(sources_by_lib[i].val)
            /\ \A i \in 1..Len(final_dict) : relpath(t) \notin Range(final_dict[i].val)

\* the dictionary was printed for a run in which t.v included p0.v, which it
\* also instantiates, and g.v included the header
C12_Witness ==
    /\ pc = "done"
    /\ final_dict # <<>>
    /\ Included = {abspath(P_p0), abspath(P_h)}
    /\ N_p0 \in Range(FileAt(abspath(P_t)).vinsts)

(***************************************************************************)
(* C13  Abort conditions: the run stops without output only when the       *)
(* top-level file is missing, every search root is missing, or no file     *)
(* was resolved; with a search root that exists among several the run      *)
(* proceeds, and no diagnostic ends it.                                    *)
(***************************************************************************)
EveryRootMissing == \A i \in 1..Len(search_path) : ~isdir(search_path[i])

NothingResolved == visited # {} /\ stack = <<>> /\ ordered_files = <<>>

C13_AbortOnlyWhen ==
    /\ pc = "aborted" =>
          ~isfile(top_level_file) \/ EveryRootMissing \/ NothingResolved
    /\ pc # "crashed"

(***************************************************************************)
(* C14  Order under cycles: once resolution has finished, for every        *)
(* resolved edge A -> B with both files in the output, B precedes A or B   *)
(* was on the work stack when A was expanded; an edge that lies on no      *)
(* cycle always has B before A.                                            *)
(***************************************************************************)
StackAt(a) == Get(trace_exp, a).on_stack

C14_OrderModuloBrokenEdge ==
    ResolveFinished =>
        LET R == EdgeSet
        IN  \A a \in Range(ordered_files) : \A b \in Edges(a) \cap Range(ordered_files) :
                /\ \/ IndexOf(ordered_files, b) < IndexOf(ordered_files, a)
                   \/ b \in StackAt(a)
                /\ a \notin ReachSet(R, {e[2] : e \in {r \in R : r[1] = b}}) \cup {b}
                      => IndexOf(ordered_files, b) < IndexOf(ordered_files, a)

\* a run over the cycle x -> y -> x has finished with the closing edge
\* unsatisfied and the edge from the top-level file satisfied
C14_Witness ==
    /\ ResolveFinished
    /\ \E a, b \in Range(ordered_files) \ {TopPath} :
          /\ a # b
          /\ b \in Edges(a) /\ a \in Edges(b)
          /\ b \in StackAt(a)
          /\ IndexOf(ordered_files, a) < IndexOf(ordered_files, b)
          /\ b \in Edges(TopPath)
          /\ IndexOf(ordered_files, b) < IndexOf(ordered_files, TopPath)

(***************************************************************************)
(* C15  The hint 'work' is equivalent to no hint: for the index built and  *)
(* every unit name, find_dependencies_in_file gives the reference          *)
(* 'work.name' and the reference 'name' of a/ref.vhd the same outcome:     *)
(* the same resolved file, or no edge and a normal return.                 *)
(***************************************************************************)
OutcomeOf(hint, name) ==
    LET found == vhdl_matches(abspath(P_ref), << <<hint, name>> >>, unit_map, NoDeps)
    IN  [deps |-> found.deps, returned |-> ~found.raised]

C15_WorkIsNoHint ==
    pc \notin {"start", "aborted"} =>
        \A name \in {N_adder, N_Adder, N_mux} : \A w \in {W_work, L_Work} :
            OutcomeOf(Some(w), name) = OutcomeOf(None, name)

(***************************************************************************)
(* C16  Reserved-word filtering: in an expanded Verilog file, an           *)
(* instantiation-like match led by a reserved word produces no edge, even  *)
(* when the default library has a unit of that name; every other match is  *)
(* looked up in the default library only.                                  *)
(***************************************************************************)
\* the leading identifiers of the matches of k that are not reserved words
PlainInsts(k) ==
    IF k \in DiskPaths /\ IsVerilogName(k)
      THEN {n \in Range(FileAt(k).vinsts) : n \notin VERILOG_KEYWORDS} ELSE {}

AbsBucket(lib, name) == {normcase(abspath(p)) : p \in Bucket(lib, name)}

C16_ReservedWords ==
    \A k \in Keys(trace_exp) :
        (k \in DiskPaths /\ IsVerilogName(k)) =>
            /\ \A b \in Edges(k) \ IncludesOf(k) :
                  \E n \in PlainInsts(k) : b \in AbsBucket(default_lib, n)
            /\ \A n \in PlainInsts(k) :
                  AbsBucket(default_lib, n) # {}
                      => Edges(k) \cap AbsBucket(default_lib, n) # {}

(***************************************************************************)
(* C17  Proximity tie-break follows discovery order: when several          *)
(* candidates of an implicit reference share the maximal common-prefix     *)
(* length, the file selected is the tied file met first by the indexing    *)
(* walk, also when the candidates come from buckets of different           *)
(* libraries.                                                              *)
(***************************************************************************)
Walked == walk_all(search_path)

\* the position at which the walk first met the file
Discovery(path) == CHOOSE i \in 1..Len(Walked) :
                      /\ Walked[i].path = path
                      /\ \A j \in 1..(i - 1) : Walked[j].path # path

Tied(k, name) ==
    {c \in Definers(name) : \A d \in Definers(name) : CommonLen(k, d) <= CommonLen(k, c)}

C17_TieBreakDiscovery ==
    \A k \in Keys(trace_exp) \cap DiskPaths :
        (Len(RefsOf(k)) = 1 /\ ~IsExplicit(RefsOf(k)[1][1])
           /\ Cardinality(Tied(k, RefsOf(k)[1][2])) > 1) =>
            \E s \in Tied(k, RefsOf(k)[1][2]) :
                /\ Edges(k) = {normcase(abspath(s))}
                /\ \A c \in Tied(k, RefsOf(k)[1][2]) : Discovery(s) <= Discovery(c)

(***************************************************************************)
(* C18  No library self-edges: in every state of the construction of the   *)
(* library graph, and of Kahn's working copy of it, no library is in its   *)
(* own dependency set, whatever edges join files of one library.           *)
(***************************************************************************)
C18_NoLibrarySelfEdge ==
    /\ \A i \in 1..Len(lib_graph) : lib_graph[i].key \notin lib_graph[i].val
    /\ \A i \in 1..Len(graph_copy) : graph_copy[i].key \notin graph_copy[i].val

\* the graph was built from files of which two of one library depend on
\* each other and one depends on a file of another library
C18_Witness ==
    /\ pc \in {"dict_kahn", "done"}
    /\ \E a \in Sources : \E b \in (Edges(a) \cap Sources) \ {a} :
          LibOf(a) = LibOf(b) /\ LibOf(a) \in Keys(lib_graph)
    /\ \E i \in 1..Len(lib_graph) : lib_graph[i].val # {}

(***************************************************************************)
(* C19  The unit index is read-only downstream: in every state after the   *)
(* index was built, through file-order and library-order resolution, the   *)
(* unit index has the keys and the buckets, in content and order, that     *)
(* build_design_unit_map returned.                                         *)
(***************************************************************************)
IndexBuilt ==
    build_design_unit_map(walk_all(search_path), parse_lib_map(lib_map_args),
                          default_lib).unit_map

C19_IndexReadOnly ==
    pc \notin {"start", "aborted"} => unit_map = IndexBuilt

\* the dictionary was printed for a run whose top-level file names a unit
\* under a library the index has no bucket for, while the index has others
C19_Witness ==
    /\ pc = "done"
    /\ unit_map # <<>>
    /\ TopPath \in Keys(trace_exp)
    /\ LET ref == RefsOf(TopPath)[1]
       IN  /\ IsExplicit(ref[1])
           /\ <<Lower(ref[1][1]), Lower(ref[2])>> \notin Keys(unit_map)

(***************************************************************************)
(* C20  Visitation-state invariant of resolve_dependency_tree: in every    *)
(* state every file on the work stack is in the visited set, no file is    *)
(* in two stack frames, no file on the stack is in the output list, and    *)
(* every file of the output list is in the visited set.                    *)
(***************************************************************************)
C20_VisitationInvariant ==
    /\ StackPaths(stack) \subseteq visited
    /\ \A i, j \in 1..Len(stack) : stack[i].path = stack[j].path => i = j
    /\ \A i \in 1..Len(ordered_files) :
          /\ normcase(ordered_files[i]) \notin StackPaths(stack)
          /\ normcase(ordered_files[i]) \in visited

\* two frames are on the stack, one file is out, and the file on top has
\* been expanded with a dependency on the file below it and one on the
\* file that is out
C20_Witness ==
    /\ pc = "resolve_loop"
    /\ Len(stack) = 2
    /\ Len(ordered_files) = 1
    /\ stack[2].path \in Keys(trace_exp)
    /\ Edges(stack[2].path) = {stack[1].path, normcase(ordered_files[1])}

(***************************************************************************)
(* C21  Output is exactly the reachable set with the top-level file last:  *)
(* once resolve_dependency_tree has returned, the files of its output are  *)
(* the files reachable from the top-level file through resolved edges,     *)
(* all of which exist, and the top-level file is the last element.         *)
(***************************************************************************)
OutputSet == {normcase(ordered_files[i]) : i \in 1..Len(ordered_files)}

C21_OutputIsReachableSet ==
    ResolveFinished =>
        LET R == EdgeSet
        IN  /\ OutputSet = ReachSet(R, {TopPath})
            /\ \A f \in ReachSet(R, {TopPath}) : exists(f)
            /\ ordered_files # <<>>
            /\ normcase(ordered_files[Len(ordered_files)]) = TopPath

\* resolution has returned three files, of which one is reached only
\* through another one that also depends on the top-level file
C21_Witness ==
    /\ ResolveFinished
    /\ Len(ordered_files) = 3
    /\ \E a \in Edges(TopPath) : \E b \in Edges(a) \ Edges(TopPath) :
          b \notin {a, TopPath} /\ TopPath \in Edges(a)

(***************************************************************************)
(* C22  No file is lost in the library-keyed dictionary: whatever the      *)
(* default library and the rules, each file of the compile order that is   *)
(* not an include file is in exactly one library's list of the dictionary  *)
(* printed, and within each list the files keep the order in which they    *)
(* were finalized.                                                         *)
(***************************************************************************)
\* the position of a relative path in the compile order
Finalized(rel_path) ==
    CHOOSE i \in 1..Len(ordered_files) : relpath(ordered_files[i]) = rel_path

C22_NoFileLost ==
    pc = "done" =>
        /\ \A f \in Sources :
              Cardinality({i \in 1..Len(final_dict) :
                              \E j \in 1..Len(final_dict[i].val) :
                                  final_dict[i].val[j] = relpath(f)}) = 1
        /\ \A i \in 1..Len(final_dict) :
              \A j, k \in 1..Len(final_dict[i].val) :
                  j < k => Finalized(final_dict[i].val[j]) < Finalized(final_dict[i].val[k])

====
